---- MODULE Spec2Model ----
(***************************************************************************)
(* Rewind ingestion pipeline: the /ingest and /ingest/batch handlers, the  *)
(* Cypher statements they run in one write transaction, the Neo4j graph    *)
(* they write, and the hook that delivers transcript records with a        *)
(* committed checkpoint.                                                   *)
(***************************************************************************)
EXTENDS Bags, FiniteSets, Integers, Sequences, TLC

(***************************************************************************)
(* Bounds                                                                  *)
(***************************************************************************)
\* total number of HTTP requests the handlers accept in one behaviour
MaxRequests == 3
\* cap on the number of records the hook puts in one batch
BatchCap == 1

(***************************************************************************)
(* Request payloads                                                        *)
(***************************************************************************)
\* the concurrently running request handlers
Clients == {"h1", "h2"}

\* a content block of message.message.content; type "" is a block without type
Block(type, text) == [type |-> type, text |-> text]

\* ConversationMessage.  shape: "ok" a full record, "nobody" a record without
\* its `message` field, "null" a JSON null in place of the record.
\* isArray: message.message.content is an array (of `content`), else the
\* string `text`.  hasUsage / inTok / outTok: message.message.usage.
Msg(uuid, type, ts, parent, isArray, content, text, hasUsage, inTok, outTok) ==
    [shape |-> "ok", uuid |-> uuid, type |-> type, timestamp |-> ts,
     parentUuid |-> parent, isArray |-> isArray, content |-> content,
     text |-> text, hasUsage |-> hasUsage, inTok |-> inTok, outTok |-> outTok]

M1 == Msg("m1", "user", 1, "", FALSE, <<>>, "hello", FALSE, 0, 0)
M2 == Msg("m2", "assistant", 2, "m1", TRUE, <<Block("text", "hi")>>, "", TRUE, 0, 5)
\* the uuid of M2 again, with every other field different
M2b == Msg("m2", "assistant", 1, "m9", TRUE,
           <<Block("tool_use", "ls"), Block("", "x")>>, "", TRUE, 3, 0)
\* a record without its `message` field
MBad == [M1 EXCEPT !.shape = "nobody", !.uuid = "m3"]
MNull == [M1 EXCEPT !.shape = "null", !.uuid = ""]

Messages == {M1, M2, M2b, MBad, MNull}

\* BatchIngestPayload / IngestPayload.  "" is a missing (falsy) string.
\* hasMessages = FALSE: `messages` is missing or not an array.
\* A single-message payload carries `message` as messages[1].
Req(kind, projectId, projectPath, conversationId, hasMessages, messages) ==
    [kind |-> kind, projectId |-> projectId, projectPath |-> projectPath,
     conversationId |-> conversationId, hasMessages |-> hasMessages,
     messages |-> messages]

Batch(p, path, c, msgs) == Req("batch", p, path, c, TRUE, msgs)
Single(p, path, c, m) == Req("single", p, path, c, TRUE, <<m>>)

NoReq == Req("none", "", "", "", FALSE, <<>>)

\* the payloads the handlers are driven with
Requests ==
    { Batch("p1", "/a", "c1", <<M1, M2>>),
      Batch("p2", "/b", "c1", <<M2b>>),
      Batch("p2", "/a", "c2", <<M2, M1>>),
      Batch("p1", "/a", "c1", <<M1, MBad>>),
      Batch("p1", "/b", "c1", <<M2, M2b>>),
      Batch("p2", "/a", "c2", <<>>),
      Batch("", "/a", "c1", <<M1>>),
      Batch("p1", "/a", "", <<M1>>),
      Req("batch", "p2", "/a", "c2", FALSE, <<>>),
      Single("p2", "/b", "c2", M2b),
      Single("p1", "/a", "c1", MNull),
      Single("", "/a", "c1", M1) }

(***************************************************************************)
(* The graph                                                               *)
(***************************************************************************)
\* Nodes of one label are a bag of property records (two nodes may carry the
\* same properties); relationships of one type are a bag of pairs of node keys
\* (two nodes may be joined by parallel relationships).
EmptyGraph ==
    [projects |-> EmptyBag, convs |-> EmptyBag, msgs |-> EmptyBag,
     blocks |-> EmptyBag, hasConv |-> EmptyBag, contains |-> EmptyBag,
     hasBlock |-> EmptyBag]

GraphPlus(G, D) ==
    [projects |-> G.projects (+) D.projects,
     convs    |-> G.convs (+) D.convs,
     msgs     |-> G.msgs (+) D.msgs,
     blocks   |-> G.blocks (+) D.blocks,
     hasConv  |-> G.hasConv (+) D.hasConv,
     contains |-> G.contains (+) D.contains,
     hasBlock |-> G.hasBlock (+) D.hasBlock]

GraphMinus(G, D) ==
    [projects |-> G.projects (-) D.projects,
     convs    |-> G.convs (-) D.convs,
     msgs     |-> G.msgs (-) D.msgs,
     blocks   |-> G.blocks (-) D.blocks,
     hasConv  |-> G.hasConv (-) D.hasConv,
     contains |-> G.contains (-) D.contains,
     hasBlock |-> G.hasBlock (-) D.hasBlock]

\* what a transaction has written and not yet committed
NoWrites == [del |-> EmptyGraph, add |-> EmptyGraph]

\* the graph after the writes W
Apply(G, W) == GraphPlus(GraphMinus(G, W.del), W.add)

\* the writes W1 followed by the writes W2
Then(W1, W2) ==
    [del |-> GraphPlus(W1.del, GraphMinus(W2.del, W1.add)),
     add |-> GraphPlus(GraphMinus(W1.add, W2.del), W2.add)]

Created(D) == [del |-> EmptyGraph, add |-> D]

(***************************************************************************)
(* Parameters of the Cypher statements                                     *)
(***************************************************************************)
\* a nullable property: {} is null, {v} is the value v
Null == {}
Some(v) == {v}

\* JSON.stringify of a value
Stringify(v) == <<"json", v>>

\* usage?.input_tokens ? neo4j.int(usage.input_tokens) : null
TokenParam(hasUsage, n) == IF hasUsage /\ n # 0 THEN Some(n) ELSE Null

\* content.find(b => b.type === 'text')?.text || ''
FirstText(content) ==
    IF \E k \in 1..Len(content) : content[k].type = "text"
    THEN content[CHOOSE k \in 1..Len(content) :
                    /\ content[k].type = "text"
                    /\ \A l \in 1..(k - 1) : content[l].type # "text"].text
    ELSE ""

getPreview(m) ==
    IF m.type = "user"
    THEN IF m.isArray THEN FirstText(m.content) ELSE m.text
    ELSE IF m.type = "assistant" /\ m.isArray THEN FirstText(m.content) ELSE ""

\* the `usage` constant of ingestMessage: defined for an assistant message
\* whose message.message carries usage
HasUsage(m) == m.type = "assistant" /\ m.hasUsage

\* evaluating the parameters of ingestMessage throws a TypeError: message is
\* null, or message.message is undefined where it is dereferenced
IngestThrows(m) ==
    \/ m.shape = "null"
    \/ m.shape = "nobody" /\ m.type \in {"user", "assistant"}

\* messages[0], undefined for an empty array
FirstMessage(r) == IF Len(r.messages) = 0 THEN MNull ELSE r.messages[1]

\* evaluating firstMessage.uuid throws
FirstMessageThrows(m) == m.shape = "null"

\* the Rewind_Message node the ON CREATE SET clause writes
MessageNode(m) ==
    [uuid |-> m.uuid, type |-> m.type, timestamp |-> m.timestamp,
     parentUuid |-> m.parentUuid,
     inputTokens |-> TokenParam(HasUsage(m), m.inTok),
     outputTokens |-> TokenParam(HasUsage(m), m.outTok),
     messageData |-> IF m.shape = "ok"
                     THEN Some(Stringify([isArray |-> m.isArray,
                                          content |-> m.content,
                                          text |-> m.text]))
                     ELSE Null,
     preview |-> getPreview(m)]

\* the blocks ingestMessage loops over
ContentOf(m) ==
    IF m.shape = "ok" /\ m.type = "assistant" /\ m.isArray THEN m.content ELSE <<>>

\* the Rewind_ContentBlock node the ON CREATE SET clause writes
BlockNode(uuid, i, block) ==
    [messageUuid |-> uuid, index |-> i,
     type |-> IF block.type = "" THEN "unknown" ELSE block.type,
     data |-> Stringify(block)]

ProjectNode(projectId, projectPath) ==
    [id |-> projectId, path |-> projectPath, name |-> projectId,
     displayName |-> projectId]

ConversationNode(conversationId, firstMessage) ==
    [sessionId |-> conversationId, uuid |-> firstMessage.uuid,
     timestamp |-> firstMessage.timestamp, starred |-> Null]

(***************************************************************************)
(* The Cypher statements                                                   *)
(***************************************************************************)
Nodes(bag) == BagToSet(bag)

HasProject(V, id)      == \E p \in Nodes(V.projects) : p.id = id
HasConversation(V, id) == \E c \in Nodes(V.convs) : c.sessionId = id
HasMessage(V, uuid)    == \E m \in Nodes(V.msgs) : m.uuid = uuid
HasBlock(V, uuid, i)   ==
    \E b \in Nodes(V.blocks) : b.messageUuid = uuid /\ b.index = i

\* initializeSchema without the constraint on Rewind_Message.uuid
SchemaWithoutMessage == {"Project", "Conversation", "ContentBlock"}

\* initializeSchema without the constraint on Rewind_Conversation.sessionId
SchemaWithoutConversation == {"Project", "Message", "ContentBlock"}

\* the uniqueness constraints initializeSchema declares
SchemaConstraints == {"Project", "Conversation", "Message", "ContentBlock"}

\* the exclusive lock on the index entry of a unique key, taken by the
\* transaction that creates a node of a label whose constraint is in force
KeyLock(cons, label, key) ==
    IF label \in cons THEN {<<"key", label, key>>} ELSE {}

\* the exclusive lock on a node of the committed graph G that gets a
\* relationship (a node the transaction created itself is not contended)
NodeLock(G, label, key) ==
    IF CASE label = "Project" -> HasProject(G, key)
         [] label = "Conversation" -> HasConversation(G, key)
         [] label = "Message" -> HasMessage(G, key)
         [] OTHER -> FALSE
    THEN {<<"node", label, key>>}
    ELSE {}

\* A statement run against the graph V the transaction sees, G being the
\* committed graph, gives the writes it makes and the locks it has to hold to
\* make them.
Nothing == [writes |-> NoWrites, locks |-> {}]

\* the project statement with CREATE in place of MERGE
CreateProject(G, V, cons, projectId, projectPath) ==
    [writes |-> Created([EmptyGraph EXCEPT !.projects =
                    SetToBag({ProjectNode(projectId, projectPath)})]),
     locks |-> KeyLock(cons, "Project", projectId)]

\* MERGE (p:Rewind_Project {id: $projectId}) ON CREATE SET ...
MergeProject(G, V, cons, projectId, projectPath) ==
    IF HasProject(V, projectId)
    THEN Nothing
    ELSE [writes |-> Created([EmptyGraph EXCEPT !.projects =
                        SetToBag({ProjectNode(projectId, projectPath)})]),
          locks |-> KeyLock(cons, "Project", projectId)]

\* the conversation statement with SET in place of ON CREATE SET
MergeConversationOverwrite(G, V, cons, projectId, conversationId, first) ==
    IF ~HasProject(V, projectId)
    THEN Nothing
    ELSE LET old == {c \in Nodes(V.convs) : c.sessionId = conversationId}
             newEdge == ~BagIn(<<projectId, conversationId>>, V.hasConv)
         IN  [writes |->
                 [del |-> [EmptyGraph EXCEPT !.convs = SetToBag(old)],
                  add |-> [EmptyGraph EXCEPT
                     !.convs = SetToBag({ConversationNode(conversationId,
                                                          first)}),
                     !.hasConv =
                         IF newEdge
                         THEN SetToBag({<<projectId, conversationId>>})
                         ELSE EmptyBag]],
              locks |->
                  (IF old = {}
                   THEN KeyLock(cons, "Conversation", conversationId)
                   ELSE NodeLock(G, "Conversation", conversationId))
                  \cup
                  (IF newEdge THEN NodeLock(G, "Project", projectId) ELSE {})]

\* MATCH (p:Rewind_Project {id: $projectId})
\* MERGE (c:Rewind_Conversation {sessionId: $conversationId}) ON CREATE SET ...
\* MERGE (p)-[:HAS_CONVERSATION]->(c)
MergeConversation(G, V, cons, projectId, conversationId, firstMessage) ==
    IF ~HasProject(V, projectId)
    THEN Nothing
    ELSE LET newNode == ~HasConversation(V, conversationId)
             newEdge == ~BagIn(<<projectId, conversationId>>, V.hasConv)
         IN  [writes |-> Created([EmptyGraph EXCEPT
                  !.convs = IF newNode
                            THEN SetToBag({ConversationNode(conversationId,
                                                            firstMessage)})
                            ELSE EmptyBag,
                  !.hasConv = IF newEdge
                              THEN SetToBag({<<projectId, conversationId>>})
                              ELSE EmptyBag]),
              locks |->
                  (IF newNode
                   THEN KeyLock(cons, "Conversation", conversationId) ELSE {})
                  \cup
                  (IF newEdge
                   THEN NodeLock(G, "Project", projectId)
                        \cup NodeLock(G, "Conversation", conversationId)
                   ELSE {})]

\* the message statement with a MATCH on the parent message in front
MergeMessageUnderParent(G, V, cons, conversationId, message) ==
    IF \/ ~HasConversation(V, conversationId)
       \/ message.parentUuid # "" /\ ~HasMessage(V, message.parentUuid)
    THEN Nothing
    ELSE LET newNode == ~HasMessage(V, message.uuid)
             newEdge == ~BagIn(<<conversationId, message.uuid>>, V.contains)
         IN  [writes |-> Created([EmptyGraph EXCEPT
                  !.msgs = IF newNode
                           THEN SetToBag({MessageNode(message)})
                           ELSE EmptyBag,
                  !.contains = IF newEdge
                               THEN SetToBag({<<conversationId, message.uuid>>})
                               ELSE EmptyBag]),
              locks |->
                  (IF newNode
                   THEN KeyLock(cons, "Message", message.uuid) ELSE {})
                  \cup
                  (IF newEdge
                   THEN NodeLock(G, "Conversation", conversationId)
                        \cup NodeLock(G, "Message", message.uuid)
                   ELSE {})]

\* the message statement that attaches the message only when it creates it
MergeMessageAttachNew(G, V, cons, conversationId, message) ==
    IF ~HasConversation(V, conversationId) \/ HasMessage(V, message.uuid)
    THEN Nothing
    ELSE [writes |-> Created([EmptyGraph EXCEPT
              !.msgs = SetToBag({MessageNode(message)}),
              !.contains = SetToBag({<<conversationId, message.uuid>>})]),
          locks |-> KeyLock(cons, "Message", message.uuid)
                    \cup NodeLock(G, "Conversation", conversationId)]

\* the message statement with SET in place of ON CREATE SET: the properties
\* of a matched node are written again
MergeMessageOverwrite(G, V, cons, conversationId, message) ==
    IF ~HasConversation(V, conversationId)
    THEN Nothing
    ELSE LET old == {m \in Nodes(V.msgs) : m.uuid = message.uuid}
             newEdge == ~BagIn(<<conversationId, message.uuid>>, V.contains)
         IN  [writes |->
                 [del |-> [EmptyGraph EXCEPT !.msgs = SetToBag(old)],
                  add |-> [EmptyGraph EXCEPT
                     !.msgs = SetToBag({MessageNode(message)}),
                     !.contains =
                         IF newEdge
                         THEN SetToBag({<<conversationId, message.uuid>>})
                         ELSE EmptyBag]],
              locks |->
                  (IF old = {}
                   THEN KeyLock(cons, "Message", message.uuid)
                   ELSE NodeLock(G, "Message", message.uuid))
                  \cup
                  (IF newEdge
                   THEN NodeLock(G, "Conversation", conversationId)
                   ELSE {})]

\* the message statement with CREATE (c)-[:CONTAINS]->(m) for its last clause
MergeMessageCreateEdge(G, V, cons, conversationId, message) ==
    IF ~HasConversation(V, conversationId)
    THEN Nothing
    ELSE LET newNode == ~HasMessage(V, message.uuid)
         IN  [writes |-> Created([EmptyGraph EXCEPT
                  !.msgs = IF newNode
                           THEN SetToBag({MessageNode(message)})
                           ELSE EmptyBag,
                  !.contains = SetToBag({<<conversationId, message.uuid>>})]),
              locks |->
                  (IF newNode
                   THEN KeyLock(cons, "Message", message.uuid) ELSE {})
                  \cup NodeLock(G, "Conversation", conversationId)
                  \cup NodeLock(G, "Message", message.uuid)]

\* MATCH (c:Rewind_Conversation {sessionId: $conversationId})
\* MERGE (m:Rewind_Message {uuid: $uuid}) ON CREATE SET ...
\* MERGE (c)-[:CONTAINS]->(m)
MergeMessage(G, V, cons, conversationId, message) ==
    IF ~HasConversation(V, conversationId)
    THEN Nothing
    ELSE LET newNode == ~HasMessage(V, message.uuid)
             newEdge == ~BagIn(<<conversationId, message.uuid>>, V.contains)
         IN  [writes |-> Created([EmptyGraph EXCEPT
                  !.msgs = IF newNode
                           THEN SetToBag({MessageNode(message)})
                           ELSE EmptyBag,
                  !.contains = IF newEdge
                               THEN SetToBag({<<conversationId, message.uuid>>})
                               ELSE EmptyBag]),
              locks |->
                  (IF newNode
                   THEN KeyLock(cons, "Message", message.uuid) ELSE {})
                  \cup
                  (IF newEdge
                   THEN NodeLock(G, "Conversation", conversationId)
                        \cup NodeLock(G, "Message", message.uuid)
                   ELSE {})]

\* the block statement with SET b.type = $type, b.data = $data in place of
\* ON CREATE SET
MergeBlockOverwrite(G, V, cons, messageUuid, i, block) ==
    IF ~HasMessage(V, messageUuid)
    THEN Nothing
    ELSE IF HasBlock(V, messageUuid, i) /\ BagIn(<<messageUuid, i>>, V.hasBlock)
    THEN [writes |->
            [del |-> [EmptyGraph EXCEPT !.blocks = SetToBag(
                        {b \in Nodes(V.blocks) :
                            b.messageUuid = messageUuid /\ b.index = i})],
             add |-> [EmptyGraph EXCEPT !.blocks =
                        SetToBag({BlockNode(messageUuid, i, block)})]],
          locks |-> NodeLock(G, "Message", messageUuid)]
    ELSE [writes |-> Created([EmptyGraph EXCEPT
              !.blocks = SetToBag({BlockNode(messageUuid, i, block)}),
              !.hasBlock = SetToBag({<<messageUuid, i>>})]),
          locks |-> NodeLock(G, "Message", messageUuid)
                    \cup KeyLock(cons, "ContentBlock", <<messageUuid, i>>)]

\* MATCH (m:Rewind_Message {uuid: $messageUuid})
\* MERGE (m)-[:HAS_BLOCK]->(b:Rewind_ContentBlock {messageUuid: .., index: ..})
\* ON CREATE SET b.type = $type, b.data = $data
\* The pattern is matched as a whole: a block node and its relationship.
MergeBlock(G, V, cons, messageUuid, i, block) ==
    IF ~HasMessage(V, messageUuid)
    THEN Nothing
    ELSE IF HasBlock(V, messageUuid, i) /\ BagIn(<<messageUuid, i>>, V.hasBlock)
    THEN Nothing
    ELSE [writes |-> Created([EmptyGraph EXCEPT
              !.blocks = SetToBag({BlockNode(messageUuid, i, block)}),
              !.hasBlock = SetToBag({<<messageUuid, i>>})]),
          locks |-> NodeLock(G, "Message", messageUuid)
                    \cup KeyLock(cons, "ContentBlock", <<messageUuid, i>>)]

\* no two nodes of the bag agree on the key
UniqueBy(bag, Key(_)) ==
    \A n1 \in Nodes(bag) :
        /\ CopiesIn(n1, bag) = 1
        /\ \A n2 \in Nodes(bag) : Key(n1) = Key(n2) => n1 = n2

ProjectKey(p) == p.id
ConversationKey(c) == c.sessionId
MessageKey(m) == m.uuid
BlockKey(b) == <<b.messageUuid, b.index>>

\* a statement that would leave two nodes with one key fails where the
\* constraint is in force
SatisfiesConstraints(V, cons) ==
    /\ "Project" \in cons => UniqueBy(V.projects, ProjectKey)
    /\ "Conversation" \in cons => UniqueBy(V.convs, ConversationKey)
    /\ "Message" \in cons => UniqueBy(V.msgs, MessageKey)
    /\ "ContentBlock" \in cons => UniqueBy(V.blocks, BlockKey)

(***************************************************************************)
(* State                                                                   *)
(***************************************************************************)
VARIABLES
    graph,        \* the committed graph
    constraints,  \* the uniqueness constraints in force in the Graph Store
    handler,      \* per request handler: its request, position and transaction
    nreq,         \* requests accepted so far
    source,       \* the lines of the transcript file written so far
    checkpoint,   \* the committed position of the hook in that file
    hook,         \* the hook: where it is in deliver(source)
    driver        \* the module-level driver of the API process and the
                  \* drivers it has made

hookVars == <<source, checkpoint, hook>>

\* a handler that has served nothing yet
IdleHandler ==
    [pc |-> "idle", req |-> NoReq, i |-> 0, j |-> 0,
     writes |-> NoWrites, locks |-> {}, status |-> 0, ingested |-> Null,
     session |-> "none", fault |-> FALSE, from |-> "none",
     overlap |-> FALSE, convNew |-> FALSE, result |-> Null]

\* pc values of a handler inside session.executeWrite
TxPcs == {"project", "conversation", "message", "block", "commit"}

\* the graph a transaction reads: what is committed, and its own writes
Visible(h) == Apply(graph, handler[h].writes)

HeldByOthers(h) == UNION {handler[d].locks : d \in Clients \ {h}}

\* evaluating the parameters of the statement at (pc, i) throws
ThrowsAt(r, pc, i) ==
    \/ pc = "conversation" /\ FirstMessageThrows(FirstMessage(r))
    \/ pc = "message" /\ IngestThrows(r.messages[i])

\* the statement of request r at position (pc, i, j), run against V:
\* "project" and "conversation" are the two statements of
\* ensureProjectAndConversation, "message" and "block" those of ingestMessage
\* for message i and its content block j (stored under index j - 1)
StatementAt(G, V, cons, r, pc, i, j) ==
    CASE pc = "project" ->
           MergeProject(G, V, cons, r.projectId, r.projectPath)
      [] pc = "conversation" ->
           MergeConversation(G, V, cons, r.projectId, r.conversationId,
                             FirstMessage(r))
      [] pc = "message" ->
           MergeMessage(G, V, cons, r.conversationId, r.messages[i])
      [] pc = "block" ->
           MergeBlock(G, V, cons, r.messages[i].uuid, j - 1,
                      ContentOf(r.messages[i])[j])
      [] OTHER -> Nothing

\* where the loop over the content blocks and the loop over the messages go
\* after block j of message i
AfterBlock(r, i, j) ==
    IF j < Len(ContentOf(r.messages[i]))
    THEN <<"block", i, j + 1>>
    ELSE IF i < Len(r.messages)
    THEN <<"message", i + 1, 0>>
    ELSE <<"commit", 0, 0>>

\* the position after the statement at (pc, i, j)
NextPos(r, pc, i, j) ==
    CASE pc = "project" -> <<"conversation", 0, 0>>
      [] pc = "conversation" -> <<"message", 1, 0>>
      [] pc = "message" -> AfterBlock(r, i, 0)
      [] pc = "block" -> AfterBlock(r, i, j)
      [] OTHER -> <<"commit", 0, 0>>

\* the statement handler h runs next, against the graph V it sees
StatementOn(h, V) ==
    IF ThrowsAt(handler[h].req, handler[h].pc, handler[h].i)
    THEN Nothing
    ELSE StatementAt(graph, V, constraints, handler[h].req,
                     handler[h].pc, handler[h].i, handler[h].j)

Statement(h) == StatementOn(h, Visible(h))

\* a catch inside the transaction function that skips the failing statement
\* and lets the transaction go on
SkipFailed(rec) ==
    LET nx == NextPos(rec.req, rec.pc, rec.i, rec.j)
    IN  [rec EXCEPT !.pc = nx[1], !.i = nx[2], !.j = nx[3]]

\* a catch block that answers success
FailedAnswersOk(rec) ==
    [rec EXCEPT !.pc = "done", !.i = 0, !.j = 0, !.writes = NoWrites,
                !.locks = {}, !.status = 200, !.ingested = Null,
                !.session = "closed"]

\* a handler without its finally block: the session stays open
FailedSessionOpen(rec) ==
    [rec EXCEPT !.pc = "done", !.i = 0, !.j = 0, !.writes = NoWrites,
                !.locks = {}, !.status = 500, !.ingested = Null]

\* the transaction function threw, or the transaction failed: executeWrite
\* rolls back, the finally block closes the session, the catch answers 500
Failed(rec) ==
    [rec EXCEPT !.pc = "done", !.i = 0, !.j = 0, !.writes = NoWrites,
                !.locks = {}, !.status = 500, !.ingested = Null,
                !.session = "closed"]

\* the mutant of TxStep whose statements are committed one by one, as with
\* session.run outside a transaction
TxStepAutoCommit(h) ==
    \E V \in {graph} :
    \E st \in {StatementOn(h, V)} :
    \E after \in {Apply(V, st.writes)} :
    LET nx == NextPos(handler[h].req, handler[h].pc, handler[h].i, handler[h].j)
        ok == /\ ~ThrowsAt(handler[h].req, handler[h].pc, handler[h].i)
              /\ SatisfiesConstraints(after, constraints)
    IN  /\ st.locks \cap HeldByOthers(h) = {}
        /\ handler' = [handler EXCEPT ![h] =
              IF ok
              THEN [@ EXCEPT !.writes = Then(@, st.writes),
                             !.locks = @ \cup st.locks,
                             !.pc = nx[1], !.i = nx[2], !.j = nx[3]]
              ELSE Failed(@)]
        /\ graph' = IF ok THEN Apply(graph, st.writes) ELSE graph
        /\ UNCHANGED <<driver, constraints, nreq, hookVars>>

\* the next step of the transaction function of h: the parameters of the
\* statement are evaluated (which may throw) and tx.run runs it
TxStep(h) ==
    \E V \in {Visible(h)} :
    \E st \in {StatementOn(h, V)} :
    \E after \in {Apply(V, st.writes)} :
    LET nx == NextPos(handler[h].req, handler[h].pc, handler[h].i, handler[h].j)
    IN  /\ st.locks \cap HeldByOthers(h) = {}
        /\ handler' = [handler EXCEPT ![h] =
              IF /\ ~ThrowsAt(handler[h].req, handler[h].pc, handler[h].i)
                 /\ SatisfiesConstraints(after, constraints)
              THEN [@ EXCEPT !.writes = Then(@, st.writes),
                             !.locks = @ \cup st.locks,
                             !.pc = nx[1], !.i = nx[2], !.j = nx[3]]
              ELSE Failed(@)]
        /\ UNCHANGED <<driver, graph, constraints, nreq, hookVars>>

(***************************************************************************)
(* POST /batch and POST /                                                  *)
(***************************************************************************)
CanAccept(h) == handler[h].pc \in {"idle", "done"} /\ nreq < MaxRequests

\* the check without !conversationId
BatchInvalidNoConversation(r) == r.projectId = "" \/ ~r.hasMessages

\* !projectId || !conversationId || !messages || !Array.isArray(messages)
BatchInvalid(r) == r.projectId = "" \/ r.conversationId = "" \/ ~r.hasMessages

\* the check without !conversationId
SingleInvalidNoConversation(r) ==
    r.projectId = "" \/ FirstMessage(r).shape = "null"

\* !projectId || !conversationId || !message
SingleInvalid(r) ==
    r.projectId = "" \/ r.conversationId = "" \/ FirstMessage(r).shape = "null"

\* some handler of S is inside session.executeWrite
InTransaction(S) == \E d \in S : handler[d].pc \in TxPcs

\* h takes request r and goes on as rec.  overlap and convNew record, for
\* the properties below, whether another transaction was running and whether
\* the conversation was absent when the request arrived.
Accept(h, r, from, rec) ==
    /\ handler' = [handler EXCEPT ![h] =
                      [rec EXCEPT !.req = r, !.from = from,
                                  !.overlap = InTransaction(Clients \ {h}),
                                  !.convNew = ~HasConversation(graph,
                                                      r.conversationId)]]
    /\ nreq' = nreq + 1
    /\ UNCHANGED <<driver, graph, constraints>>

\* a handler that answers a validation failure like a server error
RejectedAsError ==
    [IdleHandler EXCEPT !.pc = "done", !.status = 500]

\* return c.json({ error: 'Missing required fields' }, 400)
Rejected ==
    [IdleHandler EXCEPT !.pc = "done", !.status = 400]

\* getSession() and session.executeWrite: the transaction function starts
Begun ==
    [IdleHandler EXCEPT !.pc = "project", !.session = "open"]

\* the handler without its messages.length === 0 return
EmptyBegun == Begun

\* return c.json({ success: true, ingested: 0 })
EmptyDone ==
    [IdleHandler EXCEPT !.pc = "done", !.status = 200, !.ingested = Some(0)]

\* how the handler of POST /batch goes on after reading the payload r
BatchFirst(r) ==
    IF BatchInvalid(r) THEN Rejected
    ELSE IF Len(r.messages) = 0 THEN EmptyDone
    ELSE Begun

\* how the handler of POST / goes on after reading the payload r
SingleFirst(r) == IF SingleInvalid(r) THEN Rejected ELSE Begun

\* the handler of POST /batch up to its first await on the Graph Store
BatchHandle(h, r, from) ==
    /\ CanAccept(h)
    /\ r.kind = "batch"
    /\ Accept(h, r, from, BatchFirst(r))

\* the handler of POST / up to its first await on the Graph Store
SingleHandle(h, r, from) ==
    /\ CanAccept(h)
    /\ r.kind = "single"
    /\ Accept(h, r, from, SingleFirst(r))

PostBatch(h) ==
    \E r \in Requests : BatchHandle(h, r, "ext") /\ UNCHANGED <<driver, hookVars>>

PostSingle(h) ==
    \E r \in Requests : SingleHandle(h, r, "ext") /\ UNCHANGED <<driver, hookVars>>

\* ensureProjectAndConversation, first statement
EnsureProject(h) ==
    /\ handler[h].pc = "project"
    /\ TxStep(h)

\* ensureProjectAndConversation, second statement
EnsureConversation(h) ==
    /\ handler[h].pc = "conversation"
    /\ TxStep(h)

\* ingestMessage, the statement that merges the message node
IngestMessage(h) ==
    /\ handler[h].pc = "message"
    /\ TxStep(h)

\* ingestMessage, the statement that merges content block j
IngestBlock(h) ==
    /\ handler[h].pc = "block"
    /\ TxStep(h)

\* c.json({ success: true, ingested: messages.length }) / { success: true }
Response(r) == IF r.kind = "batch" THEN Some(Len(r.messages)) ELSE Null

\* executeWrite commits; the session is closed; the handler answers 200
Commit(h) ==
    /\ handler[h].pc = "commit"
    /\ graph' = Apply(graph, handler[h].writes)
    /\ handler' = [handler EXCEPT ![h].pc = "done", ![h].locks = {},
                                  ![h].status = 200,
                                  ![h].ingested = Response(handler[h].req),
                                  ![h].session = "closed"]
    /\ UNCHANGED <<driver, constraints, nreq, hookVars>>

\* the Graph Store fails a statement or the commit (connection lost, retry
\* time used up): the transaction is rolled back and the error surfaces
StorageError(h) ==
    /\ handler[h].pc \in TxPcs
    /\ handler' = [handler EXCEPT ![h] = [Failed(@) EXCEPT !.fault = TRUE]]
    /\ UNCHANGED <<driver, graph, constraints, nreq, hookVars>>

\* h waits for a lock that d holds
WaitsFor(h, d) == h # d /\ Statement(h).locks \cap handler[d].locks # {}

RECURSIVE WaitChain(_, _)
WaitChain(S, n) ==
    IF n = 0 THEN S
    ELSE WaitChain(S \cup {d \in Clients : \E a \in S : WaitsFor(a, d)}, n - 1)

Deadlocked(h) ==
    \E d \in Clients :
        WaitsFor(h, d) /\ h \in WaitChain({d}, Cardinality(Clients))
                       /\ \E a \in WaitChain({d}, Cardinality(Clients)) :
                              WaitsFor(a, h)

\* the Graph Store ends a deadlocked transaction with a transient error;
\* executeWrite rolls it back and runs the transaction function again
DeadlockRetry(h) ==
    /\ handler[h].pc \in TxPcs
    /\ Deadlocked(h)
    /\ handler' = [handler EXCEPT ![h].pc = "project", ![h].i = 0, ![h].j = 0,
                                  ![h].writes = NoWrites, ![h].locks = {}]
    /\ UNCHANGED <<driver, graph, constraints, nreq, hookVars>>

(***************************************************************************)
(* Specification of the Ingestion Service                                  *)
(***************************************************************************)
vars ==
    <<graph, constraints, handler, nreq, source, checkpoint, hook, driver>>

\* ref: the module variable `driver`, 0 for null, else the number of the
\* driver it refers to; made: drivers created so far; closing: drivers whose
\* close() has been called; closed: drivers whose close() has resolved;
\* closers: the calls of closeDriver waiting in `await driver.close()`
NoDriver == [ref |-> 0, made |-> 0, closing |-> {}, closed |-> {},
             closers |-> {}]

\* the API process after start-up: the first getDriver() has made the driver
StartedDriver == [NoDriver EXCEPT !.ref = 1, !.made = 1]

\* the hook between two invocations
NoRejected == [batch |-> NoReq, upto |-> 0]

\* outcome and exit: how the last invocation ended; failed: the batch of the
\* last invocation if it got no 2xx answer; rejected: the batch that got a
\* 4xx answer; synced: no line before the recorded position has been
\* replaced since the position was committed
IdleHook ==
    [pc |-> "idle", batch |-> NoReq, upto |-> 0, outcome |-> "none",
     exit |-> Null, failed |-> NoReq, rejected |-> NoRejected,
     synced |-> TRUE]

Init ==
    /\ graph = EmptyGraph
    /\ constraints = SchemaConstraints
    /\ handler = [h \in Clients |-> IdleHandler]
    /\ nreq = 0
    /\ source = <<>>
    /\ checkpoint = 0
    /\ hook = IdleHook
    /\ driver = StartedDriver

Next ==
    \E h \in Clients :
        \/ PostBatch(h)
        \/ PostSingle(h)
        \/ EnsureProject(h)
        \/ EnsureConversation(h)
        \/ IngestMessage(h)
        \/ IngestBlock(h)
        \/ Commit(h)
        \/ StorageError(h)
        \/ DeadlockRetry(h)

Spec == Init /\ [][Next]_vars

(***************************************************************************)
(* A request served with no other transaction in its way                   *)
(***************************************************************************)
RECURSIVE RunTx(_, _, _, _, _, _, _)
\* the transaction function of request r from position (pc, i, j) on, run
\* against V with G committed: the graph it commits, or a failure
RunTx(G, V, cons, r, pc, i, j) ==
    IF pc = "commit" THEN [ok |-> TRUE, graph |-> V]
    ELSE IF ThrowsAt(r, pc, i) THEN [ok |-> FALSE, graph |-> V]
    ELSE LET st == StatementAt(G, V, cons, r, pc, i, j)
             V2 == Apply(V, st.writes)
             nx == NextPos(r, pc, i, j)
         IN  IF SatisfiesConstraints(V2, cons)
             THEN RunTx(G, V2, cons, r, nx[1], nx[2], nx[3])
             ELSE [ok |-> FALSE, graph |-> V]

Answer(status, G, ingested) ==
    [status |-> status, graph |-> G, ingested |-> ingested]

\* the graph and the answer after request r is served on graph G
RunRequest(G, cons, r) ==
    LET first == IF r.kind = "batch" THEN BatchFirst(r) ELSE SingleFirst(r)
    IN  IF first.pc = "done"
        THEN Answer(first.status, G, first.ingested)
        ELSE LET out == RunTx(G, G, cons, r, first.pc, 0, 0)
             IN  IF out.ok THEN Answer(200, out.graph, Response(r))
                 ELSE Answer(500, G, Null)

\* handler h serves request r from its arrival to its answer with no other
\* request in between
ServeAlone(h, r) ==
    /\ CanAccept(h)
    /\ ~InTransaction(Clients)
    /\ LET out == RunRequest(graph, constraints, r)
           first == IF r.kind = "batch" THEN BatchFirst(r) ELSE SingleFirst(r)
       IN  /\ graph' = out.graph
           /\ handler' = [handler EXCEPT ![h] =
                 [first EXCEPT !.pc = "done", !.req = r, !.from = "ext",
                               !.status = out.status,
                               !.ingested = out.ingested,
                               !.session = IF first.session = "open"
                                           THEN "closed" ELSE "none",
                               !.convNew = ~HasConversation(graph,
                                                   r.conversationId)]]
    /\ nreq' = nreq + 1
    /\ UNCHANGED <<driver, constraints, hookVars>>

NextSerial == \E h \in Clients, r \in Requests : ServeAlone(h, r)

\* the Ingestion Service serving one request at a time
SpecSerial == Init /\ [][NextSerial]_vars

(***************************************************************************)
(* Properties of the Ingestion Service                                     *)
(***************************************************************************)
ProjectIds == {"p1", "p2"}
ConversationIds == {"c1", "c2"}
Paths == {"/a", "/b"}
MessageLists == {<<M1, M2>>, <<M2b>>, <<M2, M1>>, <<M2, M2b>>}

\* the batches that pass validation and whose messages are all well formed
ValidBatches ==
    {Batch(p, path, c, ms) :
        p \in ProjectIds, path \in Paths, c \in ConversationIds,
        ms \in MessageLists}

ExampleBatch == Batch("p1", "/a", "c1", <<M1, M2>>)

Done(h) == handler[h].pc = "done"

\* number of relationships of the bag that end in the node with this key
EdgesInto(bag, key) ==
    BagCardinality([e \in {x \in BagToSet(bag) : x[2] = key} |-> bag[e]])

\* number of nodes of the bag with this key
NodesWith(bag, Key(_), key) ==
    BagCardinality([n \in {x \in BagToSet(bag) : Key(x) = key} |-> bag[n]])

\* C1: in every reachable graph state, serving a valid batch a second time
\* right after the first leaves every node, relationship and property as
\* the first left them.
BatchIdempotent ==
    \A b \in ValidBatches :
        LET once == RunRequest(graph, constraints, b)
            twice == RunRequest(once.graph, constraints, b)
        IN  once.status = 200 /\ twice.status = 200 /\ twice.graph = once.graph

\* the example batch has been served twice, and the graph holds one project,
\* one conversation, two messages and one content block
BatchIdempotentWitness ==
    /\ nreq = 2
    /\ \A h \in Clients :
          /\ Done(h) /\ handler[h].status = 200
          /\ handler[h].req = ExampleBatch
    /\ BagCardinality(graph.projects) = 1
    /\ BagCardinality(graph.convs) = 1
    /\ BagCardinality(graph.msgs) = 2
    /\ BagCardinality(graph.blocks) = 1
    /\ BagCardinality(graph.hasConv) = 1
    /\ BagCardinality(graph.contains) = 2
    /\ BagCardinality(graph.hasBlock) = 1

\* C2: the graph changes only in the step that commits a whole batch: every
\* message of the request was written without a failure and all of them
\* become visible together; a request in which a step failed never changes
\* the graph.
BatchAtomic ==
    [][graph' # graph =>
        \E h \in Clients :
            LET r == handler[h].req
            IN  /\ handler[h].pc = "commit"
                /\ handler'[h].pc = "done" /\ handler'[h].status = 200
                /\ \A k \in 1..Len(r.messages) :
                      /\ ~IngestThrows(r.messages[k])
                      /\ HasMessage(graph', r.messages[k].uuid)
                      /\ BagIn(<<r.conversationId, r.messages[k].uuid>>,
                               graph'.contains)]_vars

\* the batch whose second message is malformed was answered 500 and nothing
\* of it, its first message included, is in the graph
BatchAtomicWitness ==
    \E h \in Clients :
        /\ Done(h) /\ handler[h].status = 500 /\ ~handler[h].fault
        /\ handler[h].req = Batch("p1", "/a", "c1", <<M1, MBad>>)
        /\ ~HasMessage(graph, "m1")
        /\ ~HasProject(graph, "p1")

\* C3: no two Message nodes of the committed graph have the same uuid.
NoTwoMessagesShareUuid == UniqueBy(graph.msgs, MessageKey)

\* two overlapping requests that both carry uuid m2, with different fields,
\* have both been committed
NoTwoMessagesShareUuidWitness ==
    \E h1, h2 \in Clients :
        /\ h1 # h2 /\ Done(h1) /\ Done(h2)
        /\ handler[h1].status = 200 /\ handler[h2].status = 200
        /\ handler[h1].req = ExampleBatch
        /\ handler[h2].req = Single("p2", "/b", "c2", M2b)
        /\ handler[h2].overlap
        /\ HasMessage(graph, "m2")

\* a batch request that passes validation and has no malformed message
WellFormedBatch(r) ==
    /\ r.kind = "batch"
    /\ r.projectId # "" /\ r.conversationId # "" /\ r.hasMessages
    /\ Len(r.messages) > 0
    /\ \A k \in 1..Len(r.messages) : r.messages[k].shape = "ok"

\* h1 and h2 served batches for one conversation that did not exist when
\* either arrived, and the transaction of h1 was running when h2 arrived
RacedForConversation(h1, h2) ==
    /\ h1 # h2 /\ Done(h1) /\ Done(h2)
    /\ WellFormedBatch(handler[h1].req) /\ WellFormedBatch(handler[h2].req)
    /\ handler[h1].req.conversationId = handler[h2].req.conversationId
    /\ handler[h1].convNew /\ handler[h2].convNew /\ handler[h2].overlap
    /\ ~handler[h1].fault /\ ~handler[h2].fault

\* C4: when two batches for the same new conversation ran concurrently and
\* the Graph Store itself did not fail, both were answered 200 and exactly
\* one Conversation node with that sessionId exists.
ConcurrentNewConversation ==
    \A h1, h2 \in Clients :
        RacedForConversation(h1, h2) =>
            /\ handler[h1].status = 200 /\ handler[h2].status = 200
            /\ NodesWith(graph.convs, ConversationKey,
                         handler[h1].req.conversationId) = 1

ConcurrentNewConversationWitness ==
    \E h1, h2 \in Clients :
        /\ RacedForConversation(h1, h2)
        /\ handler[h1].req.projectId # handler[h2].req.projectId
        /\ handler[h1].writes # NoWrites /\ handler[h2].writes # NoWrites

\* C5: every Conversation node has exactly one incoming HAS_CONVERSATION
\* relationship.
ConversationInOneProject ==
    \A c \in Nodes(graph.convs) : EdgesInto(graph.hasConv, c.sessionId) = 1

\* C6: no two ContentBlock nodes share (messageUuid, index), and no step
\* changes or removes a ContentBlock node that exists.
BlocksUniqueAndKept ==
    [][/\ UniqueBy(graph'.blocks, BlockKey)
       /\ \A b \in Nodes(graph.blocks) : b \in Nodes(graph'.blocks)]_vars

\* message m2 was ingested again with other content blocks: block 0 is still
\* the text block written first, block 1 is new
BlocksUniqueAndKeptWitness ==
    \E h \in Clients :
        /\ Done(h) /\ handler[h].status = 200
        /\ handler[h].req = Batch("p2", "/b", "c1", <<M2b>>)
        /\ BlockNode("m2", 0, Block("text", "hi")) \in Nodes(graph.blocks)
        /\ HasBlock(graph, "m2", 1)

\* C7: a batch request without projectId, conversationId or an array of
\* messages is answered 400 with no session opened and nothing written, and
\* serving it leaves the graph as it is.
MissingFieldsRejected ==
    /\ \A h \in Clients :
          LET r == handler[h].req
          IN  r.kind = "batch" /\ (r.projectId = "" \/ r.conversationId = ""
                                   \/ ~r.hasMessages)
              => /\ Done(h) /\ handler[h].status = 400
                 /\ handler[h].session = "none"
                 /\ handler[h].writes = NoWrites /\ handler[h].locks = {}
    /\ \A r \in {Batch("", "/a", "c1", <<M1>>), Batch("p1", "/a", "", <<M1>>),
                 Req("batch", "p2", "/a", "c2", FALSE, <<>>)} :
          RunRequest(graph, constraints, r) = Answer(400, graph, Null)

MissingFieldsRejectedWitness ==
    \E h \in Clients :
        /\ Done(h) /\ handler[h].status = 400
        /\ handler[h].req = Batch("p1", "/a", "", <<M1>>)

\* C8: a batch with both ids and an empty array of messages is answered 200
\* with ingested = 0, with no session opened, and the graph stays as it is.
EmptyBatchNoTransaction ==
    /\ \A h \in Clients :
          LET r == handler[h].req
          IN  r.kind = "batch" /\ r.projectId # "" /\ r.conversationId # ""
              /\ r.hasMessages /\ Len(r.messages) = 0
              => /\ Done(h) /\ handler[h].status = 200
                 /\ handler[h].ingested = Some(0)
                 /\ handler[h].session = "none"
                 /\ handler[h].writes = NoWrites /\ handler[h].locks = {}
    /\ \A p \in ProjectIds, c \in ConversationIds :
          RunRequest(graph, constraints, Batch(p, "/a", c, <<>>))
              = Answer(200, graph, Some(0))

\* the empty batch for a project and a conversation that do not exist was
\* answered and neither exists
EmptyBatchNoTransactionWitness ==
    \E h \in Clients :
        /\ Done(h) /\ handler[h].status = 200
        /\ handler[h].req = Batch("p2", "/a", "c2", <<>>)
        /\ ~HasProject(graph, "p2") /\ ~HasConversation(graph, "c2")

\* C9: on every reachable graph, POST / with a message and POST /batch with
\* that one message leave the same graph and succeed or fail together.
SingleIsBatchOfOne ==
    \A p \in ProjectIds \cup {""}, path \in Paths,
       c \in ConversationIds \cup {""}, m \in Messages :
        LET one == RunRequest(graph, constraints, Single(p, path, c, m))
            bat == RunRequest(graph, constraints, Batch(p, path, c, <<m>>))
        IN  one.graph = bat.graph /\ (one.status = 200) = (bat.status = 200)

\* a single-message request was served on the empty graph and left what the
\* batch of that message leaves
SingleIsBatchOfOneWitness ==
    \E h \in Clients :
        /\ Done(h) /\ handler[h].status = 200 /\ nreq = 1
        /\ handler[h].req = Single("p2", "/b", "c2", M2b)
        /\ graph # EmptyGraph
        /\ graph = RunRequest(EmptyGraph, constraints,
                              Batch("p2", "/b", "c2", <<M2b>>)).graph

(***************************************************************************)
(* The hook: Transcript Reader, Batch Delivery Client, Checkpoint Store    *)
(***************************************************************************)
\* a line of the transcript file: a record with the sessionId it carries, or
\* a line that does not parse
HookProject == "p1"
HookPath == "/a"
HookConversation == "c1"

Line(m) == [valid |-> TRUE, msg |-> m, session |-> HookConversation]
CorruptLine == [valid |-> FALSE, msg |-> MNull, session |-> ""]
\* a record that parses and carries no sessionId
Unsessioned(m) == [valid |-> TRUE, msg |-> m, session |-> ""]

M4 == Msg("m4", "user", 3, "m2", FALSE, <<>>, "again", FALSE, 0, 0)

\* what the host process writes to the transcript of conversation c1, in order
Transcript == <<Line(M1), CorruptLine, Line(M2)>>
\* what it writes to the file that takes the place of the transcript
Rotated == <<Line(M4), Line(M2)>>
\* a transcript whose records carry no sessionId
Orphan == <<Unsessioned(M1)>>

Transcripts == {Transcript, Rotated, Orphan}

\* a reader that starts from the first line whatever the recorded position
StartFromZero(src, pos) == 0

\* read(source): a recorded position beyond the end of the source is stale
\* and counts as zero
StartPosition(src, pos) == IF pos > Len(src) THEN 0 ELSE pos

RECURSIVE ScanUntilCorrupt(_, _, _, _)
\* a reader that stops at the first line that does not parse
ScanUntilCorrupt(src, k, cap, acc) ==
    IF k > Len(src) \/ Len(acc.records) = cap THEN acc
    ELSE IF src[k].valid
    THEN ScanUntilCorrupt(src, k + 1, cap,
              [records |-> Append(acc.records, src[k].msg), upto |-> k,
               session |-> IF acc.records = <<>> THEN src[k].session
                           ELSE acc.session])
    ELSE acc

RECURSIVE Scan(_, _, _, _)
\* newRecordsSince: from line k on, the records of at most cap lines that
\* parse, lines that do not parse skipped, the position after the last
\* record taken and the sessionId of the first
Scan(src, k, cap, acc) ==
    IF k > Len(src) \/ Len(acc.records) = cap THEN acc
    ELSE IF src[k].valid
    THEN Scan(src, k + 1, cap,
              [records |-> Append(acc.records, src[k].msg), upto |-> k,
               session |-> IF acc.records = <<>> THEN src[k].session
                           ELSE acc.session])
    ELSE Scan(src, k + 1, cap, acc)

NewRecordsSince(src, pos) ==
    Scan(src, pos + 1, BatchCap,
         [records |-> <<>>, upto |-> pos, session |-> ""])

\* the batch deliver(source) would send now, and the position it proposes
Pending ==
    LET rd == NewRecordsSince(source, StartPosition(source, checkpoint))
    IN  [batch |-> Batch(HookProject, HookPath, rd.session, rd.records),
         upto |-> rd.upto]

\* a hook that reports trouble to the host process
ExitCodeOfOutcome(outcome) == IF outcome \in {"ok", "nothing"} THEN 0 ELSE 1

\* the exit code of the hook process for an outcome of deliver
ExitCode(outcome) == 0

\* deliver returns: the outcome is logged and the process exits
Returned(outcome) ==
    [hook EXCEPT !.pc = "idle", !.outcome = outcome,
                 !.exit = Some(ExitCode(outcome))]

\* the checkpoint deliver starts from: reset to zero when it is stale
Reset == StartPosition(source, checkpoint)

\* the recorded position refers to the file as it is now
Synced == hook.synced \/ checkpoint > Len(source)

\* the host process appends the next line to the transcript
AppendLine ==
    /\ \E t \in Transcripts :
          /\ Len(source) < Len(t)
          /\ SubSeq(t, 1, Len(source)) = source
          /\ source' = Append(source, t[Len(source) + 1])
    /\ UNCHANGED <<driver, graph, constraints, handler, nreq, checkpoint, hook>>

\* deliver(source): the new records are read and one batch of them is sent
HookSend ==
    /\ hook.pc = "idle"
    /\ Len(Pending.batch.messages) > 0
    /\ Pending # hook.rejected
    /\ hook' = [hook EXCEPT !.pc = "sent", !.batch = Pending.batch,
                            !.upto = Pending.upto, !.synced = Synced]
    /\ checkpoint' = Reset
    /\ UNCHANGED <<driver, graph, constraints, handler, nreq, source>>

\* deliver(source) with nothing to send: no new record, or only the batch
\* that was rejected
HookNothing ==
    /\ hook.pc = "idle"
    /\ Len(Pending.batch.messages) = 0 \/ Pending = hook.rejected
    /\ hook' = [Returned("nothing") EXCEPT !.synced = Synced]
    /\ checkpoint' = Reset
    /\ UNCHANGED <<driver, graph, constraints, handler, nreq, source>>

\* deliver(source) when the source cannot be read
HookUnreadable ==
    /\ hook.pc = "idle"
    /\ hook' = Returned("unreadable")
    /\ UNCHANGED <<driver, graph, constraints, handler, nreq, source, checkpoint>>

\* the request of the hook reaches the Ingestion Service
HookServe(h) ==
    /\ hook.pc = "sent"
    /\ \A d \in Clients : handler[d].from # "hook"
    /\ BatchHandle(h, hook.batch, "hook")
    /\ UNCHANGED <<driver, hookVars>>

\* the handler that holds the connection of the hook has answered
Answered(h) == handler[h].from = "hook" /\ Done(h)

\* the connection of the hook is over
Hangup(from) ==
    [h \in Clients |->
        IF handler[h].from = "hook"
        THEN [handler[h] EXCEPT !.from = from] ELSE handler[h]]

\* a 2xx answer: the checkpoint is committed to the position after the last
\* record of the batch
HookAck ==
    /\ hook.pc = "sent"
    /\ \E h \in Clients : Answered(h) /\ handler[h].status = 200
    /\ handler' = Hangup("answered")
    /\ checkpoint' = hook.upto
    /\ hook' = [Returned("ok") EXCEPT !.failed = NoReq]
    /\ UNCHANGED <<driver, graph, constraints, nreq, source>>

\* a client that commits the proposed position on any answer
HookFailureCommits ==
    /\ hook.pc = "sent"
    /\ \E h \in Clients : Answered(h) /\ handler[h].status >= 500
    /\ handler' = Hangup("answered")
    /\ checkpoint' = hook.upto
    /\ hook' = [Returned("error") EXCEPT !.failed = hook.batch]
    /\ UNCHANGED <<driver, graph, constraints, nreq, source>>

\* a 5xx answer: the hook returns, the checkpoint stays
HookFailure ==
    /\ hook.pc = "sent"
    /\ \E h \in Clients : Answered(h) /\ handler[h].status >= 500
    /\ handler' = Hangup("answered")
    /\ hook' = [Returned("error") EXCEPT !.failed = hook.batch]
    /\ UNCHANGED <<driver, graph, constraints, nreq, source, checkpoint>>

\* a 4xx answer: the batch is logged as rejected and is not sent again; the
\* checkpoint stays
HookRejected ==
    /\ hook.pc = "sent"
    /\ \E h \in Clients :
          Answered(h) /\ handler[h].status >= 400 /\ handler[h].status < 500
    /\ handler' = Hangup("answered")
    /\ hook' = [Returned("rejected") EXCEPT
                   !.rejected = [batch |-> hook.batch, upto |-> hook.upto]]
    /\ UNCHANGED <<driver, graph, constraints, nreq, source, checkpoint>>

\* the timeout expires or the transport fails before an answer: the
\* connection is gone, the checkpoint stays; a handler that has the request
\* goes on with it
HookTimeout ==
    /\ hook.pc = "sent"
    /\ handler' = Hangup("dropped")
    /\ hook' = [Returned("timeout") EXCEPT !.failed = hook.batch]
    /\ UNCHANGED <<driver, graph, constraints, nreq, source, checkpoint>>

\* the hook process is killed before an answer: it returns nothing, and the
\* next invocation starts from the committed checkpoint
HookKilled ==
    /\ hook.pc = "sent"
    /\ handler' = Hangup("dropped")
    /\ hook' = [hook EXCEPT !.pc = "idle", !.outcome = "killed",
                            !.exit = Null, !.failed = hook.batch]
    /\ UNCHANGED <<driver, graph, constraints, nreq, source, checkpoint>>

\* a step of the Ingestion Service on a request it has
Serve(h) ==
    \/ EnsureProject(h)
    \/ EnsureConversation(h)
    \/ IngestMessage(h)
    \/ IngestBlock(h)
    \/ Commit(h)

NextHook ==
    \/ AppendLine
    \/ HookSend
    \/ HookNothing
    \/ HookUnreadable
    \/ HookAck
    \/ HookFailure
    \/ HookRejected
    \/ HookTimeout
    \/ HookKilled
    \/ \E h \in Clients :
          \/ HookServe(h)
          \/ EnsureProject(h)
          \/ EnsureConversation(h)
          \/ IngestMessage(h)
          \/ IngestBlock(h)
          \/ Commit(h)
          \/ StorageError(h)

\* the hook delivering an append-only transcript to the Ingestion Service
SpecHook == Init /\ [][NextHook]_vars

\* C10: every record of the source before the committed checkpoint position
\* is a Message of the graph attached to the conversation of the source.
CheckpointCovered ==
    \A k \in 1..checkpoint :
        k <= Len(source) /\ source[k].valid =>
            /\ HasMessage(graph, source[k].msg.uuid)
            /\ BagIn(<<HookConversation, source[k].msg.uuid>>, graph.contains)

\* the checkpoint is past the last line, after a delivery that failed and
\* with records before it in the graph
CheckpointCoveredWitness ==
    /\ checkpoint = Len(Transcript)
    /\ source = Transcript
    /\ \E h \in Clients : Done(h) /\ handler[h].status = 500
    /\ HasMessage(graph, "m1") /\ HasMessage(graph, "m2")

\* the records of batch a are the first records of batch b, for the same
\* project and conversation
SentAgain(a, b) ==
    /\ a.projectId = b.projectId /\ a.conversationId = b.conversationId
    /\ Len(a.messages) <= Len(b.messages)
    /\ SubSeq(b.messages, 1, Len(a.messages)) = a.messages

\* C11: a delivery that ends in a 5xx answer, a transport failure or a
\* timeout leaves the committed checkpoint as it was, and the next batch the
\* hook sends starts with the records of the batch that failed.
FailureKeepsCheckpoint ==
    [][/\ hook.pc = "sent" /\ hook'.pc = "idle"
          /\ hook'.outcome \in {"error", "timeout"}
          => /\ checkpoint' = checkpoint
             /\ hook'.failed = hook.batch
             /\ SentAgain(hook.batch, Pending'.batch)
       /\ hook.pc = "idle" /\ hook'.pc = "sent" /\ hook.failed # NoReq
          => SentAgain(hook.failed, hook'.batch)]_vars

\* the batch that was answered 500 is on its way again, from the same
\* checkpoint
FailureKeepsCheckpointWitness ==
    /\ hook.pc = "sent" /\ hook.outcome = "error"
    /\ hook.batch = hook.failed
    /\ hook.batch = Batch(HookProject, HookPath, HookConversation, <<M2>>)
    /\ checkpoint = 1
    /\ \E h \in Clients : Done(h) /\ handler[h].status = 500

(***************************************************************************)
(* The hook invoked again and again, with finitely many faults             *)
(***************************************************************************)
\* a storage failure, a timeout or a kill can still happen
FaultsLeft == nreq < MaxRequests

\* the Ingestion Service has the request of the hook
Received == \E h \in Clients : handler[h].from = "hook"

\* the request of the hook reaches the Ingestion Service, which takes every
\* request: after the last fault one request for every line of the longest
\* transcript is enough
HookServeLive(h) ==
    /\ hook.pc = "sent"
    /\ nreq < MaxRequests + Len(Transcript)
    /\ \A d \in Clients : handler[d].from # "hook"
    /\ handler[h].pc \in {"idle", "done"}
    /\ Accept(h, hook.batch, "hook", BatchFirst(hook.batch))
    /\ UNCHANGED <<driver, hookVars>>

\* the hook reads the answer
HookAnswer == HookAck \/ HookFailure \/ HookRejected

NextLive ==
    \/ AppendLine
    \/ HookSend
    \/ HookNothing
    \/ HookUnreadable
    \/ HookAck
    \/ HookFailure
    \/ HookRejected
    \/ FaultsLeft /\ Received /\ HookTimeout
    \/ FaultsLeft /\ Received /\ HookKilled
    \/ \E h \in Clients :
          \/ HookServeLive(h)
          \/ EnsureProject(h)
          \/ EnsureConversation(h)
          \/ IngestMessage(h)
          \/ IngestBlock(h)
          \/ Commit(h)
          \/ FaultsLeft /\ StorageError(h)

\* the host process runs the hook again after every response, the network
\* delivers, the Ingestion Service and the Graph Store go on with the
\* requests they have
Fairness ==
    /\ WF_vars(HookSend)
    /\ WF_vars(HookAnswer)
    /\ WF_vars(\E h \in Clients : HookServeLive(h))
    /\ \A h \in Clients : WF_vars(Serve(h))

SpecHookLive == Init /\ [][NextLive]_vars /\ Fairness

\* no two nodes of one label have the same key
NoDuplicateNodes ==
    /\ UniqueBy(graph.projects, ProjectKey)
    /\ UniqueBy(graph.convs, ConversationKey)
    /\ UniqueBy(graph.msgs, MessageKey)
    /\ UniqueBy(graph.blocks, BlockKey)

\* message m is in the graph, attached to the conversation of the source
Ingested(m) ==
    /\ HasMessage(graph, m.uuid)
    /\ BagIn(<<HookConversation, m.uuid>>, graph.contains)
    /\ \A j \in 1..Len(ContentOf(m)) : HasBlock(graph, m.uuid, j - 1)

\* the hook was killed with a batch for the conversation on its way, and m
\* is a record of that batch
KilledWith(m) ==
    /\ hook.outcome = "killed"
    /\ hook.failed.conversationId = HookConversation
    /\ \E k \in 1..Len(hook.failed.messages) : hook.failed.messages[k] = m

\* C12: after the hook is killed between sending a batch and its answer,
\* the next batch it sends starts with the records of that batch, every
\* record of that batch is eventually in the graph, and at no time do two
\* nodes of one label share a key.
KilledBatchApplied ==
    /\ [][hook.outcome = "killed" /\ hook.pc = "idle" /\ hook'.pc = "sent"
            => SentAgain(hook.failed, hook'.batch)]_vars
    /\ []NoDuplicateNodes
    /\ \A m \in {M1, M2, M4} : KilledWith(m) ~> Ingested(m)

\* the hook was killed with the batch of m2 sent, while the Ingestion
\* Service was in its transaction; the batch was sent again and acknowledged
KilledBatchAppliedWitness ==
    /\ hook.pc = "idle" /\ hook.outcome = "ok"
    /\ checkpoint = Len(Transcript) /\ source = Transcript
    /\ \E h1, h2 \in Clients :
          /\ handler[h1].from = "dropped" /\ handler[h2].from = "answered"
          /\ handler[h1].req = handler[h2].req
          /\ handler[h1].status = 200 /\ handler[h2].status = 200
          /\ handler[h2].overlap
    /\ Ingested(M1) /\ Ingested(M2)

(***************************************************************************)
(* The hook on a transcript file that may be truncated or replaced         *)
(***************************************************************************)
\* the transcript file is emptied or replaced by a new, empty file; the host
\* process then writes to it again
Truncate ==
    /\ source # <<>>
    /\ source' = <<>>
    /\ hook' = [hook EXCEPT
                   !.synced = hook.synced /\ checkpoint = 0 /\ hook.pc = "idle"]
    /\ UNCHANGED <<driver, graph, constraints, handler, nreq, checkpoint>>

\* the request of the hook is served from its arrival to its answer with no
\* other request in between; fault: the Graph Store fails in the transaction
HookServeAlone(h, fault) ==
    /\ hook.pc = "sent"
    /\ \A d \in Clients : handler[d].from # "hook"
    /\ CanAccept(h)
    /\ ~InTransaction(Clients)
    /\ LET r == hook.batch
           first == BatchFirst(r)
           out == IF fault /\ first.pc # "done"
                  THEN Answer(500, graph, Null)
                  ELSE RunRequest(graph, constraints, r)
       IN  /\ graph' = out.graph
           /\ handler' = [handler EXCEPT ![h] =
                 [first EXCEPT !.pc = "done", !.req = r, !.from = "hook",
                               !.status = out.status,
                               !.ingested = out.ingested,
                               !.fault = fault /\ first.pc # "done",
                               !.session = IF first.session = "open"
                                           THEN "closed" ELSE "none",
                               !.convNew = ~HasConversation(graph,
                                                   r.conversationId)]]
    /\ nreq' = nreq + 1
    /\ UNCHANGED <<driver, constraints, hookVars>>

NextRotate ==
    \/ Truncate
    \/ AppendLine
    \/ HookSend
    \/ HookNothing
    \/ HookUnreadable
    \/ HookAck
    \/ HookFailure
    \/ HookRejected
    \/ HookTimeout
    \/ HookKilled
    \/ \E h \in Clients, fault \in BOOLEAN : HookServeAlone(h, fault)

\* the hook on a file that may be replaced, the Ingestion Service serving
\* one request at a time
SpecRotate == Init /\ [][NextRotate]_vars

\* C13: no step lowers the committed checkpoint position, except a step of
\* deliver that finds the position beyond the end of the source and resets
\* it to zero.
CheckpointMonotone ==
    [][\/ checkpoint' >= checkpoint
       \/ /\ checkpoint > Len(source)
          /\ checkpoint' = 0
          /\ hook.pc = "idle"]_vars

\* the transcript was delivered to its end, the file was replaced, the
\* position was reset and has advanced again in the new file
CheckpointMonotoneWitness ==
    /\ source = <<Line(M4)>> /\ checkpoint = 1
    /\ hook.pc = "idle" /\ hook.outcome = "ok" /\ hook.synced
    /\ Ingested(M1) /\ Ingested(M2) /\ Ingested(M4)

(***************************************************************************)
(* The hook with its timeout                                               *)
(***************************************************************************)
\* the overall timeout of the request is bounded: it expires unless the hook
\* has returned before
SpecHookFair == Init /\ [][NextHook]_vars /\ WF_vars(HookTimeout)

\* the outcomes with which deliver returns to the host process
Outcomes == {"ok", "nothing", "unreadable", "error", "timeout", "rejected"}

\* C14: every invocation of deliver that has sent its batch returns, and
\* whenever deliver has returned, with whatever outcome, the exit code the
\* host process got is the neutral value 0.
DeliverReturnsNeutral ==
    /\ [](hook.outcome \in Outcomes => hook.exit = Some(0))
    /\ (hook.pc = "sent") ~> (hook.pc = "idle")

\* deliver has returned after a 4xx answer, with exit code 0
DeliverReturnsNeutralWitness ==
    /\ hook.pc = "idle" /\ hook.outcome = "rejected" /\ hook.exit = Some(0)
    /\ source = Orphan
    /\ \E h \in Clients : Done(h) /\ handler[h].status = 400

(***************************************************************************)
(* The Query Service: getConversation                                      *)
(***************************************************************************)
\* JSON.parse of what JSON.stringify wrote
Parse(s) == s[2]

\* the value of a property that is set
ValueOf(v) == CHOOSE x \in v : TRUE

\* the enumerations of a finite set
Perms(S) ==
    {p \in [1..Cardinality(S) -> S] :
        \A a, b \in 1..Cardinality(S) : a # b => p[a] # p[b]}

\* MATCH (c:Rewind_Conversation {sessionId: $conversationId})-[:CONTAINS]->(m)
Contained(G, c) ==
    {m \in Nodes(G.msgs) : BagIn(<<c, m.uuid>>, G.contains)}

\* OPTIONAL MATCH (m)-[:HAS_BLOCK]->(b)
BlocksOf(G, m) ==
    {b \in Nodes(G.blocks) :
        b.messageUuid = m.uuid /\ BagIn(<<m.uuid, b.index>>, G.hasBlock)}

\* the mutant of MessageOrders with a second sort key, the uuid
UuidRank(u) == CHOOSE k \in 1..4 : <<"m1", "m2", "m3", "m4">>[k] = u

MessageOrdersByUuid(S) ==
    {p \in Perms(S) :
        \A a, b \in 1..Len(p) :
            a < b => \/ p[a].timestamp < p[b].timestamp
                     \/ /\ p[a].timestamp = p[b].timestamp
                        /\ UuidRank(p[a].uuid) < UuidRank(p[b].uuid)}

\* ORDER BY m.timestamp ASC: rows of equal timestamp come in any order
MessageOrders(S) ==
    {p \in Perms(S) :
        \A a, b \in 1..Len(p) : a < b => p[a].timestamp <= p[b].timestamp}

\* WITH m, collect(b {.*}) as blocks: a list in no stated order
BlockOrders(G, S) ==
    {f \in [S -> UNION {Perms(BlocksOf(G, m)) : m \in S}] :
        \A m \in S : f[m] \in Perms(BlocksOf(G, m))}

\* the records of the second read: one row per message, in query order
Rows(G, c) ==
    {[k \in 1..Len(p) |-> [m |-> p[k], blocks |-> f[p[k]]]] :
        p \in MessageOrders(Contained(G, c)),
        f \in BlockOrders(G, Contained(G, c))}

\* the mutant of ToMessage that always rebuilds the message from block rows
ToMessageFromBlocks(row) ==
    [uuid |-> row.m.uuid, type |-> row.m.type, timestamp |-> row.m.timestamp,
     parentUuid |-> row.m.parentUuid,
     message |-> [isArray |-> TRUE, content |-> row.blocks, text |-> ""],
     usage |-> Null]

\* messagesResult.records.map: the stored payload if there is one, else a
\* message rebuilt from the block rows
ToMessage(row) ==
    [uuid |-> row.m.uuid, type |-> row.m.type, timestamp |-> row.m.timestamp,
     parentUuid |-> row.m.parentUuid,
     message |->
        IF row.m.messageData # Null
        THEN CHOOSE d \in {Parse(s) : s \in row.m.messageData} : TRUE
        ELSE IF row.m.type = "assistant"
        THEN [isArray |-> TRUE, content |-> row.blocks, text |-> ""]
        ELSE [isArray |-> Len(row.blocks) > 0, content |-> row.blocks,
              text |-> ""],
     usage |-> IF row.m.inputTokens # Null
               THEN Some([input |-> row.m.inputTokens,
                          output |-> row.m.outputTokens])
               ELSE Null]

\* toNumber(value), COALESCE(value, 0): a missing count is zero
Tokens(v) == IF v = Null THEN 0 ELSE CHOOSE n \in v : TRUE

RECURSIVE SumInput(_)
\* messages.reduce((sum, m) => sum + (m.usage?.input_tokens || 0), 0)
SumInput(messages) ==
    IF messages = <<>> THEN 0
    ELSE (IF Head(messages).usage = Null THEN 0
          ELSE Tokens(ValueOf(Head(messages).usage).input))
         + SumInput(Tail(messages))

RECURSIVE SumOutput(_)
\* messages.reduce((sum, m) => sum + (m.usage?.output_tokens || 0), 0)
SumOutput(messages) ==
    IF messages = <<>> THEN 0
    ELSE (IF Head(messages).usage = Null THEN 0
          ELSE Tokens(ValueOf(Head(messages).usage).output))
         + SumOutput(Tail(messages))

\* what getConversation returns for the conversation node conv
Conversation(conv, rows) ==
    LET messages == [k \in 1..Len(rows) |-> ToMessage(rows[k])]
    IN  [sessionId |-> conv.sessionId, uuid |-> conv.uuid,
         timestamp |-> conv.timestamp,
         messages |-> messages,
         messageCount |-> Len(rows),
         inputTokens |-> SumInput(messages),
         outputTokens |-> SumOutput(messages),
         totalTokens |-> SumInput(messages) + SumOutput(messages)]

RECURSIVE SumStored(_, _)
\* sum(COALESCE(m.inputTokens, 0)), sum(COALESCE(m.outputTokens, 0)) over
\* the messages S of one conversation; output: the second of the two
SumStored(S, output) ==
    IF S = {} THEN 0
    ELSE LET m == CHOOSE x \in S : TRUE
         IN  Tokens(IF output THEN m.outputTokens ELSE m.inputTokens)
             + SumStored(S \ {m}, output)

\* the record getProjectConversations returns for conversation c
ProjectConversation(G, c) ==
    [sessionId |-> c,
     messageCount |-> Cardinality(Contained(G, c)),
     inputTokens |-> SumStored(Contained(G, c), FALSE),
     outputTokens |-> SumStored(Contained(G, c), TRUE),
     totalTokens |-> SumStored(Contained(G, c), FALSE)
                     + SumStored(Contained(G, c), TRUE)]

\* getProjectConversations(projectId): the conversations of the project
getProjectConversations(G, projectId) ==
    {ProjectConversation(G, conv.sessionId) :
        conv \in {n \in Nodes(G.convs) :
                     BagIn(<<projectId, n.sessionId>>, G.hasConv)}}

\* getConversation is called: session.executeRead runs the first query
GetConversation(h) ==
    /\ CanAccept(h)
    /\ \E c \in ConversationIds :
          Accept(h, Req("get", "", "", c, FALSE, <<>>), "ext",
                 [IdleHandler EXCEPT !.pc = "meta", !.session = "open"])
    /\ UNCHANGED <<driver, hookVars>>

\* convResult.records.length === 0 returns null, else the second read starts
ReadConversation(h) ==
    /\ handler[h].pc = "meta"
    /\ LET found == {c \in Nodes(graph.convs) :
                        c.sessionId = handler[h].req.conversationId}
       IN  handler' = [handler EXCEPT ![h] =
              IF found = {}
              THEN [@ EXCEPT !.pc = "done", !.status = 404,
                             !.session = "closed"]
              ELSE [@ EXCEPT !.pc = "rows", !.result = found]]
    /\ UNCHANGED <<driver, graph, constraints, nreq, hookVars>>

\* the second executeRead and the mapping of its records
ReadMessages(h) ==
    /\ handler[h].pc = "rows"
    /\ \E conv \in handler[h].result :
       \E rows \in Rows(graph, handler[h].req.conversationId) :
          handler' = [handler EXCEPT ![h] =
              [@ EXCEPT !.pc = "done", !.status = 200, !.session = "closed",
                        !.result = Some(Conversation(conv, rows))]]
    /\ UNCHANGED <<driver, graph, constraints, nreq, hookVars>>

\* the batches the readers are run against
QueryBatches ==
    {ExampleBatch, Batch("p2", "/b", "c1", <<M2b>>),
     Batch("p1", "/a", "c2", <<M2>>)}

PostQueryBatch(h) ==
    \E r \in QueryBatches : BatchHandle(h, r, "ext") /\ UNCHANGED <<driver, hookVars>>

NextQuery ==
    \E h \in Clients :
        \/ PostQueryBatch(h)
        \/ GetConversation(h)
        \/ ReadConversation(h)
        \/ ReadMessages(h)
        \/ EnsureProject(h)
        \/ EnsureConversation(h)
        \/ IngestMessage(h)
        \/ IngestBlock(h)
        \/ Commit(h)
        \/ StorageError(h)

SpecQuery == Init /\ [][NextQuery]_vars

\* a handler that has returned a conversation
Replied(h) ==
    /\ Done(h)
    /\ handler[h].req.kind = "get"
    /\ handler[h].status = 200

Reply(h) == CHOOSE r \in handler[h].result : TRUE

\* C15: the messages getConversation returns are in ascending timestamp
\* order, and messages of equal timestamp are in ascending uuid order.
MessagesInTimestampUuidOrder ==
    \A h \in Clients :
        Replied(h) =>
            \A a, b \in 1..Len(Reply(h).messages) :
                a < b =>
                    LET x == Reply(h).messages[a]
                        y == Reply(h).messages[b]
                    IN  \/ x.timestamp < y.timestamp
                        \/ /\ x.timestamp = y.timestamp
                           /\ UuidRank(x.uuid) < UuidRank(y.uuid)

\* item, the k-th content block of a returned message, is the block that was
\* ingested with ordinal index k - 1: a block of the payload, or a block row
AtOrdinal(uuid, k, item) ==
    IF "index" \in DOMAIN item
    THEN item.index = k - 1 /\ BagIn(item, graph.blocks)
    ELSE BagIn(BlockNode(uuid, k - 1, item), graph.blocks)

\* C16: every assistant message getConversation returns has its content
\* blocks in the ordinal order (index 0, 1, 2, ...) in which they were
\* ingested; a stored message that has block nodes has a stored payload, so
\* the message is never rebuilt from unordered block rows.
BlocksInOrdinalOrder ==
    /\ \A h \in Clients :
          Replied(h) =>
              \A k \in 1..Len(Reply(h).messages) :
                  LET x == Reply(h).messages[k]
                  IN  x.type = "assistant" /\ x.message.isArray =>
                          \A n \in 1..Len(x.message.content) :
                              AtOrdinal(x.uuid, n, x.message.content[n])
    /\ \A m \in Nodes(graph.msgs) :
          (\E b \in Nodes(graph.blocks) : b.messageUuid = m.uuid) =>
              m.messageData # Null

\* a reply holds the two blocks of M2b, and both block nodes are stored
BlocksInOrdinalOrderWitness ==
    \E h \in Clients :
        /\ Replied(h)
        /\ \E k \in 1..Len(Reply(h).messages) :
              /\ Reply(h).messages[k].uuid = "m2"
              /\ Reply(h).messages[k].message.content = M2b.content
        /\ \A n \in 1..2 : BagIn(BlockNode("m2", n - 1, M2b.content[n]),
                                 graph.blocks)

\* the uuids of the messages the batch of d has created
NewMessages(d) == {m.uuid : m \in Nodes(handler[d].writes.add.msgs)}

\* the blocks the batch of d has created for the message uuid
NewBlocks(d, uuid) ==
    {b \in Nodes(handler[d].writes.add.blocks) : b.messageUuid = uuid}

Range(f) == {f[k] : k \in DOMAIN f}

\* h reads the messages of the conversation in this step
Reads(h) == handler[h].pc = "rows" /\ handler'[h].pc = "done"

\* C17: when getConversation reads the messages, it sees none of the messages
\* a batch still in its transaction has created, and every message and every
\* content block that a batch committed to the same conversation created.
ReadSeesWholeBatches ==
    [][\A h \in Clients :
          Reads(h) =>
              LET c == handler[h].req.conversationId
                  seen == {x.uuid : x \in Range(Reply(h)'.messages)}
              IN  \A d \in Clients \ {h} :
                     /\ handler[d].pc \in TxPcs => seen \cap NewMessages(d) = {}
                     /\ /\ Done(d)
                        /\ handler[d].status = 200
                        /\ handler[d].req.conversationId = c
                        => /\ NewMessages(d) \subseteq seen
                           /\ \A rows \in Rows(graph, c) :
                              \A k \in 1..Len(rows) :
                                 NewBlocks(d, rows[k].m.uuid)
                                     \subseteq Range(rows[k].blocks)]_vars

\* a reader that started while a batch was in its transaction has returned
\* the messages of its conversation, and the batch has created a message of
\* that conversation which is not yet committed
ReadSeesWholeBatchesWitness ==
    \E h \in Clients, d \in Clients :
        /\ Replied(h)
        /\ handler[h].overlap
        /\ Reply(h).messages # <<>>
        /\ handler[d].pc \in TxPcs
        /\ handler[d].req.conversationId = handler[h].req.conversationId
        /\ NewMessages(d) # {}
        /\ \A x \in Range(Reply(h).messages) : x.uuid \notin NewMessages(d)

\* the line of the transcript that does not parse
CorruptAt == CHOOSE k \in 1..Len(Transcript) : ~Transcript[k].valid

StoredOnce(uuid) ==
    /\ NodesWith(graph.msgs, MessageKey, uuid) = 1
    /\ EdgesInto(graph.contains, uuid) = 1

\* C19: a delivery that finds the recorded position beyond the end of the
\* source starts from position zero and sends the first records of the
\* source; every record up to a position committed since then is in the
\* graph exactly once, and no message is ever in the graph twice.
StaleCheckpointResent ==
    /\ [][checkpoint > Len(source) /\ hook.pc = "idle" /\ hook'.pc = "sent"
            => /\ checkpoint' = 0
               /\ hook'.batch.messages = NewRecordsSince(source, 0).records
               /\ hook'.batch.messages # <<>>]_vars
    /\ [](hook.synced =>
            \A k \in 1..checkpoint :
                k <= Len(source) /\ source[k].valid =>
                    StoredOnce(source[k].msg.uuid))
    /\ [](\A m \in Nodes(graph.msgs) : StoredOnce(m.uuid))

\* m1 is in the graph and its delivery was acknowledged, yet the hook has
\* reset the position to zero and is sending m1 again from the start of the
\* replaced file
StaleCheckpointResentWitness ==
    /\ hook.pc = "sent" /\ hook.synced
    /\ checkpoint = 0
    /\ hook.failed = NoReq
    /\ source = <<Line(M1)>>
    /\ hook.batch.messages = <<M1>>
    /\ \A h \in Clients : handler[h].from # "hook"
    /\ Ingested(M1)

\* the batch lacks a field POST /batch requires
LacksField(r) ==
    r.projectId = "" \/ r.conversationId = "" \/ ~r.hasMessages

\* the hook starts a delivery in this step
Sends == hook.pc = "idle" /\ hook'.pc = "sent"

\* C20: a batch that lacks a required field is answered 4xx with nothing of
\* it applied, and once the hook has the answer it never sends that batch
\* again, whereas a batch answered 5xx is sent again by the next delivery.
RejectedBatchTerminal ==
    /\ [](\A h \in Clients :
            Done(h) /\ handler[h].req.kind = "batch"
                    /\ LacksField(handler[h].req) =>
                /\ handler[h].status >= 400 /\ handler[h].status < 500
                /\ handler[h].writes = NoWrites
                /\ handler[h].session = "none")
    /\ [][\A h \in Clients :
            handler'[h].status = 400 /\ handler[h] # handler'[h]
                => graph' = graph]_vars
    /\ [][Sends /\ hook.rejected # NoRejected
            => hook'.batch # hook.rejected.batch]_vars
    /\ [][Sends /\ LacksField(hook.batch)
                /\ hook.outcome \in {"rejected", "error"}
            => hook'.batch # hook.batch]_vars
    /\ [][Sends /\ hook.outcome = "error"
            => SentAgain(hook.failed, hook'.batch)]_vars

\* the batch without a conversationId was answered 400, nothing was written,
\* and a later run of the hook found only that batch and sent nothing
RejectedBatchTerminalWitness ==
    /\ hook.pc = "idle" /\ hook.outcome = "nothing"
    /\ hook.rejected # NoRejected
    /\ LacksField(hook.rejected.batch)
    /\ Pending = hook.rejected
    /\ graph = EmptyGraph
    /\ \E h \in Clients :
          handler[h].status = 400 /\ handler[h].from = "answered"

\* the write transaction of h fails with a storage error in this step
StorageFails(h) == ~handler[h].fault /\ handler'[h].fault

\* C21: when the write transaction of an ingest request fails with a storage
\* error, the request is answered 500 with its session closed, the graph is
\* as it was (the graph changes only when a transaction commits and is
\* answered 200), and the hook that reads the 500 leaves the checkpoint.
StorageErrorRolledBack ==
    /\ [][\A h \in Clients :
            StorageFails(h) =>
                /\ graph' = graph
                /\ handler'[h].pc = "done"
                /\ handler'[h].status = 500
                /\ handler'[h].writes = NoWrites
                /\ handler'[h].locks = {}
                /\ handler'[h].session = "closed"]_vars
    /\ [][graph' # graph =>
            \E h \in Clients :
                /\ handler[h].pc = "commit"
                /\ handler'[h].status = 200
                /\ graph' = Apply(graph, handler[h].writes)]_vars
    /\ [][/\ hook.pc = "sent" /\ hook'.pc = "idle"
          /\ \E h \in Clients : Answered(h) /\ handler[h].fault
          => checkpoint' = checkpoint]_vars

\* the transaction of the first batch of the hook failed with a storage
\* error; the hook has read the 500, the graph is empty and the checkpoint
\* is where it was
StorageErrorRolledBackWitness ==
    /\ \E h \in Clients :
          /\ Done(h) /\ handler[h].fault /\ handler[h].status = 500
          /\ handler[h].from = "answered"
          /\ handler[h].session = "closed"
    /\ hook.pc = "idle" /\ hook.outcome = "error"
    /\ hook.failed.messages = <<M1>>
    /\ checkpoint = 0
    /\ graph = EmptyGraph

\* C22: a Message node, once in the graph, stays in it with every property
\* as it was created, and no second node with its uuid appears, whatever
\* later requests carry for that uuid.
MessageFieldsKept ==
    [][\A m \in Nodes(graph.msgs) :
          /\ BagIn(m, graph'.msgs)
          /\ \A n \in Nodes(graph'.msgs) : n.uuid = m.uuid => n = m]_vars

\* a batch with M2b, which differs from M2 in every field but the uuid, was
\* served with 200 after m2 had been created from M2; the node is that of M2
MessageFieldsKeptWitness ==
    /\ BagIn(MessageNode(M2), graph.msgs)
    /\ MessageNode(M2b) # MessageNode(M2)
    /\ \E h \in Clients :
          /\ Done(h) /\ handler[h].status = 200
          /\ \E k \in 1..Len(handler[h].req.messages) :
                handler[h].req.messages[k] = M2b
          /\ handler[h].writes.add.msgs = EmptyBag

\* C23: a Project node and a Conversation node, once in the graph, stay in
\* it with every property as it was created, alone with their key, whatever
\* projectPath and first message later requests carry.
ProjectAndConversationKept ==
    [][/\ \A p \in Nodes(graph.projects) :
             /\ BagIn(p, graph'.projects)
             /\ \A q \in Nodes(graph'.projects) : q.id = p.id => q = p
       /\ \A c \in Nodes(graph.convs) :
             /\ BagIn(c, graph'.convs)
             /\ \A d \in Nodes(graph'.convs) :
                   d.sessionId = c.sessionId => d = c]_vars

\* a batch for p1 and c1 with another projectPath and another first message
\* was served with 200; the nodes are those the first batch created
ProjectAndConversationKeptWitness ==
    /\ BagIn(ProjectNode("p1", "/a"), graph.projects)
    /\ BagIn(ConversationNode("c1", M1), graph.convs)
    /\ \E h \in Clients :
          /\ Done(h) /\ handler[h].status = 200
          /\ handler[h].req = Batch("p1", "/b", "c1", <<M2, M2b>>)
          /\ ProjectNode("p1", "/b") # ProjectNode("p1", "/a")
          /\ ConversationNode("c1", M2) # ConversationNode("c1", M1)

\* C24: a batch answered 200 reports as ingested the length of its messages
\* array, and from then on every message of the request is a Message node
\* with a CONTAINS edge from the Conversation of the request.
BatchCountAndAttached ==
    \A h \in Clients :
        Done(h) /\ handler[h].status = 200 /\ handler[h].req.kind = "batch" =>
            /\ handler[h].ingested = Some(Len(handler[h].req.messages))
            /\ \A k \in 1..Len(handler[h].req.messages) :
                  LET uuid == handler[h].req.messages[k].uuid
                  IN  /\ HasMessage(graph, uuid)
                      /\ BagIn(<<handler[h].req.conversationId, uuid>>,
                               graph.contains)

\* a batch of two messages that were both in the graph, under another
\* conversation, was answered 200 with ingested 2: it created no node, and
\* both messages are attached to its conversation
BatchCountAndAttachedWitness ==
    \E h \in Clients :
        /\ Done(h) /\ handler[h].status = 200
        /\ handler[h].req = ExampleBatch
        /\ handler[h].ingested = Some(2)
        /\ handler[h].writes.add.msgs = EmptyBag
        /\ handler[h].writes.add.contains # EmptyBag
        /\ BagIn(<<"c1", "m1">>, graph.contains)
        /\ BagIn(<<"c1", "m2">>, graph.contains)
        /\ BagIn(<<"c2", "m1">>, graph.contains)

\* the request of h carries a record ingestMessage cannot read
Unreadable(h) ==
    \/ FirstMessageThrows(FirstMessage(handler[h].req))
    \/ \E k \in 1..Len(handler[h].req.messages) :
          IngestThrows(handler[h].req.messages[k])

\* C25: a message whose parentUuid names no message of the graph is ingested
\* like any other: every node a request creates stores the parentUuid of its
\* message, a request answered 200 has a node for every message whether or
\* not its parent is there, and a request is answered 500 only for a storage
\* error or a record that cannot be read, never for a missing parent.
ForwardReferenceTolerated ==
    \A h \in Clients :
        /\ \A n \in Nodes(handler[h].writes.add.msgs) :
              \E k \in 1..Len(handler[h].req.messages) :
                  /\ handler[h].req.messages[k].uuid = n.uuid
                  /\ handler[h].req.messages[k].parentUuid = n.parentUuid
        /\ Done(h) /\ handler[h].status = 200 =>
              \A k \in 1..Len(handler[h].req.messages) :
                  HasMessage(graph, handler[h].req.messages[k].uuid)
        /\ Done(h) /\ handler[h].status = 500 =>
              handler[h].fault \/ Unreadable(h)

\* one batch created m2, whose parent is m1, and after it m1: m2 was written
\* while its parent was not in the graph
ForwardReferenceToleratedWitness ==
    \E h \in Clients :
        /\ Done(h) /\ handler[h].status = 200
        /\ handler[h].req.messages = <<M2, M1>>
        /\ M2.parentUuid = M1.uuid
        /\ BagIn(MessageNode(M2), handler[h].writes.add.msgs)
        /\ BagIn(MessageNode(M1), handler[h].writes.add.msgs)
        /\ BagIn(MessageNode(M2), graph.msgs)

\* C26: every Message node has exactly one incoming CONTAINS edge, also
\* after requests that carry an ingested uuid under another conversationId.
MessageInOneConversation ==
    \A m \in Nodes(graph.msgs) : EdgesInto(graph.contains, m.uuid) = 1

(***************************************************************************)
(* toggleConversationStar                                                  *)
(***************************************************************************)
\* NOT COALESCE(c.starred, false)
Toggled(starred) == Some(starred # Some(TRUE))

\* toggleConversationStar finds the conversation: its one statement runs in
\* a write transaction of its own, which waits for the lock on the node
ToggleStar(c) ==
    /\ \E conv \in Nodes(graph.convs) :
          /\ conv.sessionId = c
          /\ \A h \in Clients :
                <<"node", "Conversation", c>> \notin handler[h].locks
          /\ graph' = [graph EXCEPT !.convs =
                (@ (-) SetToBag({conv}))
                (+) SetToBag({[conv EXCEPT !.starred = Toggled(@)]})]
    /\ UNCHANGED <<driver, constraints, handler, nreq, hookVars>>

NextStar ==
    \/ \E c \in ConversationIds : ToggleStar(c)
    \/ \E h \in Clients :
          \/ PostQueryBatch(h)
          \/ EnsureProject(h)
          \/ EnsureConversation(h)
          \/ IngestMessage(h)
          \/ IngestBlock(h)
          \/ Commit(h)
          \/ StorageError(h)

\* batch ingestion with conversations being starred and unstarred
SpecStar == Init /\ [][NextStar]_vars

\* the starred flag of conversation c in graph G
Starred(G, c) == {conv.starred : conv \in {n \in Nodes(G.convs) : n.sessionId = c}}

\* C27: a step of an ingest request leaves the starred flag of every
\* conversation as it is; only toggleConversationStar changes it.
IngestKeepsStar ==
    [][handler' # handler =>
          \A conv \in Nodes(graph.convs) :
              Starred(graph', conv.sessionId) = {conv.starred}]_vars

\* c1 is starred, and the batch that created it has been served a second
\* time, with 200, finding the conversation
IngestKeepsStarWitness ==
    /\ Starred(graph, "c1") = {Some(TRUE)}
    /\ \A h \in Clients :
          /\ Done(h) /\ handler[h].status = 200
          /\ handler[h].req = ExampleBatch
    /\ \E h \in Clients : ~handler[h].convNew

\* C28: the inputTokens and outputTokens totals getConversation returns for
\* a conversation are those getProjectConversations reports for it on the
\* same graph, for every project the conversation is listed under.
TokenTotalsAgree ==
    [][\A h \in Clients :
          Reads(h) =>
              \A p \in ProjectIds :
              \A pc \in getProjectConversations(graph, p) :
                  pc.sessionId = Reply(h)'.sessionId =>
                      /\ pc.inputTokens = Reply(h)'.inputTokens
                      /\ pc.outputTokens = Reply(h)'.outputTokens]_vars

(***************************************************************************)
(* initializeSchema                                                        *)
(***************************************************************************)
\* [...constraints, ...indexes]: the four constraints by their label, then
\* the four indexes
SchemaStatements ==
    <<"Project", "Conversation", "Message", "ContentBlock",
      "message_timestamp", "message_type", "conversation_timestamp",
      "project_path">>

\* a Graph Store in which initializeSchema has not run
InitFresh ==
    /\ graph = EmptyGraph
    /\ constraints = {}
    /\ handler = [h \in Clients |-> IdleHandler]
    /\ nreq = 0
    /\ source = <<>>
    /\ checkpoint = 0
    /\ hook = IdleHook
    /\ driver = StartedDriver

\* initializeSchema is called: getSession()
SchemaStart(h) ==
    /\ CanAccept(h)
    /\ Accept(h, Req("schema", "", "", "", FALSE, <<>>), "ext",
              [IdleHandler EXCEPT !.pc = "schema", !.i = 1,
                                  !.session = "open"])
    /\ UNCHANGED <<driver, hookVars>>

\* one turn of the loop: session.run(query) creates the constraint, or it
\* throws (the Graph Store fails, or nodes in the graph break the
\* constraint) and the catch block logs the error and goes on
SchemaStep(h) ==
    /\ handler[h].pc = "schema"
    /\ \E fails \in BOOLEAN :
          LET stmt == SchemaStatements[handler[h].i]
              created == /\ ~fails
                         /\ stmt \in SchemaConstraints
                         /\ SatisfiesConstraints(graph, {stmt})
          IN  constraints' = IF created THEN constraints \cup {stmt}
                             ELSE constraints
    /\ handler' = [handler EXCEPT ![h] =
          IF handler[h].i < Len(SchemaStatements)
          THEN [@ EXCEPT !.i = @ + 1]
          ELSE [@ EXCEPT !.pc = "await", !.i = 0]]
    /\ UNCHANGED <<driver, graph, nreq, hookVars>>

\* CALL db.awaitIndexes(), outside any try block: initializeSchema returns,
\* or throws if the call fails; the finally block closes the session
SchemaAwait(h) ==
    /\ handler[h].pc = "await"
    /\ \E fails \in BOOLEAN :
          handler' = [handler EXCEPT ![h] =
              [@ EXCEPT !.pc = "done", !.session = "closed",
                        !.status = IF fails THEN 500 ELSE 200,
                        !.fault = fails]]
    /\ UNCHANGED <<driver, graph, constraints, nreq, hookVars>>

NextSchema ==
    \E h \in Clients :
        \/ SchemaStart(h)
        \/ SchemaStep(h)
        \/ SchemaAwait(h)
        \/ PostQueryBatch(h)
        \/ EnsureProject(h)
        \/ EnsureConversation(h)
        \/ IngestMessage(h)
        \/ IngestBlock(h)
        \/ Commit(h)
        \/ StorageError(h)

\* initializeSchema and batch ingestion on a fresh Graph Store
SpecSchema == InitFresh /\ [][NextSchema]_vars

\* C29: when initializeSchema has returned without throwing, the four
\* uniqueness constraints are in force.
SchemaReturnedEnforced ==
    \A h \in Clients :
        /\ Done(h)
        /\ handler[h].req.kind = "schema"
        /\ handler[h].status = 200
        => constraints = SchemaConstraints

(***************************************************************************)
(* getDriver, getSession and closeDriver                                   *)
(***************************************************************************)
\* the callers of closeDriver
Closers == {"s1", "s2"}

\* the API process when the module is loaded: let driver = null
InitDriver ==
    /\ graph = EmptyGraph
    /\ constraints = SchemaConstraints
    /\ handler = [h \in Clients |-> IdleHandler]
    /\ nreq = 0
    /\ source = <<>>
    /\ checkpoint = 0
    /\ hook = IdleHook
    /\ driver = NoDriver

\* getDriver(): the driver the module variable refers to, a new one if the
\* variable is null
getDriver == IF driver.ref = 0 THEN driver.made + 1 ELSE driver.ref

\* a request calls getSession(): getDriver().session(...).  stale records
\* that close() had been called on the driver when the session was opened
GetSession(h) ==
    /\ CanAccept(h)
    /\ driver' = [driver EXCEPT !.ref = getDriver,
                                !.made = IF driver.ref = 0 THEN @ + 1 ELSE @]
    /\ handler' = [handler EXCEPT ![h] =
          [IdleHandler EXCEPT
              !.pc = "session", !.session = "open", !.from = "ext",
              !.req = Req("session", "", "", "", FALSE, <<>>),
              !.result = Some([driver |-> getDriver,
                               stale |-> getDriver \in driver.closing
                                                       \cup driver.closed])]]
    /\ nreq' = nreq + 1
    /\ UNCHANGED <<graph, constraints, hookVars>>

\* the finally block of the request: session.close()
CloseSession(h) ==
    /\ handler[h].pc = "session"
    /\ handler' = [handler EXCEPT ![h].pc = "done", ![h].status = 200,
                                  ![h].session = "closed"]
    /\ UNCHANGED <<graph, constraints, nreq, hookVars, driver>>

\* closeDriver() up to its await: if (driver) driver.close() is called
CloseDriverStart(s) ==
    /\ driver.ref # 0
    /\ \A c \in driver.closers : c.who # s
    /\ driver' = [driver EXCEPT
          !.closing = @ \cup {driver.ref},
          !.closers = @ \cup {[who |-> s, k |-> driver.ref]}]
    /\ UNCHANGED <<graph, constraints, handler, nreq, hookVars>>

\* driver.close() has resolved: closeDriver goes on with driver = null
CloseDriverDone(s) ==
    /\ \E c \in driver.closers :
          /\ c.who = s
          /\ driver' = [driver EXCEPT !.ref = 0,
                                      !.closed = @ \cup {c.k},
                                      !.closers = @ \ {c}]
    /\ UNCHANGED <<graph, constraints, handler, nreq, hookVars>>

NextDriver ==
    \/ \E h \in Clients : GetSession(h) \/ CloseSession(h)
    \/ \E s \in Closers : CloseDriverStart(s) \/ CloseDriverDone(s)

\* requests opening sessions while the driver is being closed
SpecDriver == InitDriver /\ [][NextDriver]_vars

\* the drivers that were made and whose close() has not resolved
LiveDrivers == {k \in 1..driver.made : k \notin driver.closed}

\* C30: at most one driver is live, and no session is open that was opened
\* on a driver whose close() had been called.
OneDriverNoStaleSession ==
    /\ Cardinality(LiveDrivers) <= 1
    /\ \A h \in Clients :
          handler[h].req.kind = "session" /\ handler[h].session = "open"
              => ~ValueOf(handler[h].result).stale

====
